---- MODULE Spec2Model ----
(***************************************************************************)
(* Model of scripts/verify_audit.py: the HMAC-SHA256 hash-chain verifier   *)
(* for Orbit audit logs (load_secret, verify_audit_log, print_report,      *)
(* main).                                                                  *)
(*                                                                         *)
(* Bytes and text are TLA+ strings.  HMAC-SHA256 is modelled symbolically: *)
(* the digest of (key, data) is the term "hmac(key,data)", so two digests  *)
(* are equal exactly when key and data are equal (no collisions), and the  *)
(* hex digest is a distinct, injective rendering of the digest.            *)
(***************************************************************************)
EXTENDS Naturals, Sequences, FiniteSets, TLC

(***************************************************************************)
(* Bounds of the model.                                                    *)
(***************************************************************************)
\* longest log the writer produces (lines)
MaxLen == 3

(***************************************************************************)
(* JSON values and lines of the file.                                      *)
(*                                                                         *)
(* A JSON value is [t, s]: its type tag and its token text.  A line of the *)
(* file is either plain text (kind "text", the characters in raw), or the  *)
(* text of a JSON object (kind "object") given by its members in source    *)
(* order, fields = << [k, v], ... >>.                                      *)
(***************************************************************************)
Num(s) == [t |-> "num", s |-> s]
Str(s) == [t |-> "str", s |-> s]
Null == [t |-> "null", s |-> "null"]
Field(k, v) == [k |-> k, v |-> v]
TextLine(raw) == [kind |-> "text", raw |-> raw, fields |-> <<>>]
ObjectLine(fields) == [kind |-> "object", raw |-> "", fields |-> fields]

\* texts that are valid JSON but not an object
NonObjectTexts == {"[1]", "42", "null", "\"s\""}

(***************************************************************************)
(* str.strip(): drops leading and trailing whitespace (line 55).           *)
(***************************************************************************)
IsSpace(c) == c \in {" ", "\t", "\n", "\r"}

RECURSIVE LStrip(_)
LStrip(s) ==
    IF Len(s) > 0 /\ IsSpace(SubSeq(s, 1, 1)) THEN LStrip(Tail(s)) ELSE s

RECURSIVE RStrip(_)
RStrip(s) ==
    IF Len(s) > 0 /\ IsSpace(SubSeq(s, Len(s), Len(s)))
    THEN RStrip(SubSeq(s, 1, Len(s) - 1))
    ELSE s

Strip(s) == RStrip(LStrip(s))

\* line.strip() of a line of the file: an object's text is never empty
StripLine(line) ==
    IF line.kind = "text" THEN TextLine(Strip(line.raw)) ELSE ObjectLine(line.fields)

\* `not line` (line 57)
IsBlank(line) == line.kind = "text" /\ Strip(line.raw) = ""

(***************************************************************************)
(* json.loads (line 61).  A dict keeps its keys in insertion order; a      *)
(* repeated key keeps its first position and takes the last value.         *)
(***************************************************************************)
HasKey(rec, k) == \E i \in 1..Len(rec) : rec[i].k = k

SetKey(rec, k, v) ==
    IF HasKey(rec, k)
    THEN [i \in 1..Len(rec) |-> IF rec[i].k = k THEN Field(k, v) ELSE rec[i]]
    ELSE Append(rec, Field(k, v))

RECURSIVE LoadsObject(_, _)
LoadsObject(fields, acc) ==
    IF fields = <<>> THEN acc
    ELSE LoadsObject(Tail(fields), SetKey(acc, Head(fields).k, Head(fields).v))

\* outcome of json.loads on a stripped, non-empty line
JsonKind(line) ==
    IF line.kind = "object" THEN "dict"
    ELSE IF line.raw \in NonObjectTexts THEN "nondict"
    ELSE "JSONDecodeError"

Loads(line) == LoadsObject(line.fields, <<>>)

(***************************************************************************)
(* record.pop('integrity_hash', None) (line 67): the value removed (None   *)
(* when the key is absent; a JSON null is None too) and the dict left.     *)
(***************************************************************************)
Get(rec, k, default) ==
    IF HasKey(rec, k) THEN rec[CHOOSE i \in 1..Len(rec) : rec[i].k = k].v ELSE default

RECURSIVE Without(_, _)
Without(rec, k) ==
    IF rec = <<>> THEN <<>>
    ELSE IF Head(rec).k = k THEN Without(Tail(rec), k)
    ELSE <<Head(rec)>> \o Without(Tail(rec), k)

PopHash(rec) == Get(rec, "integrity_hash", Null)
\* variant: the hash is read with get() and stays in the record
PopRest_Keeps(rec) == rec

PopRest(rec) == Without(rec, "integrity_hash")

(***************************************************************************)
(* json.dumps(record, separators=(',', ':')) (lines 75-76).                *)
(***************************************************************************)
Quote(s) == "\"" \o s \o "\""

\* variant: only the keys reach the canonical text
DumpsValue_Dropped(v) == "null"

DumpsValue(v) == IF v.t = "str" THEN Quote(v.s) ELSE v.s

RECURSIVE DumpsItems(_)
DumpsItems(rec) ==
    IF rec = <<>> THEN ""
    ELSE Quote(Head(rec).k) \o ":" \o DumpsValue(Head(rec).v)
         \o (IF Len(rec) > 1 THEN "," ELSE "") \o DumpsItems(Tail(rec))

Dumps(rec) == "{" \o DumpsItems(rec) \o "}"

(***************************************************************************)
(* HMAC-SHA256 (lines 79-81, 95).                                          *)
(***************************************************************************)
\* bytes([0] * 32)
ZeroChain == "00000000000000000000000000000000"

\* variant: the key is left out of the hash
HmacDigest_Unkeyed(key, data) == "hmac(" \o "," \o data \o ")"

\* hmac.new(secret, data, hashlib.sha256).digest()
HmacDigest(key, data) == "hmac(" \o key \o "," \o data \o ")"

\* bytes.hex() of a digest
Hex(digest) == "hex:" \o digest

\* h.hexdigest() for the record left after the pop, under the chain state
CalculatedHash(key, chain, rec) == Hex(HmacDigest(key, chain \o Dumps(rec)))

\* `reported_hash != calculated_hash` (line 84): a str equals only a str
HashMatches(reported, calculated) == reported.t = "str" /\ reported.s = calculated

(***************************************************************************)
(* Inputs: the logs handed to the verifier.                                *)
(*                                                                         *)
(* A log is written by the audit writer (not part of these scripts; its    *)
(* chaining rule is the one the verifier recomputes): each signed record   *)
(* carries integrity_hash = hex(HMAC(key, chain || canonical bytes)), the  *)
(* chain starting at ZeroChain and advancing to each signed record's       *)
(* digest.  The log may then be edited once before it is verified.         *)
(***************************************************************************)
Body1 == <<Field("sequence", Num("1")), Field("action", Str("a"))>>
Body2 == <<Field("action", Str("b"))>>

Item(line, sign) == [line |-> line, sign |-> sign]

\* what the writer is asked to append, one item per line
Items ==
    { Item(ObjectLine(Body1), TRUE), Item(ObjectLine(Body2), TRUE),
      Item(ObjectLine(Body1), FALSE),
      Item(TextLine(""), FALSE), Item(TextLine("{oops"), FALSE) }

Keys == {"k1", "k2"}

Signed(fields, hash) == ObjectLine(Append(fields, Field("integrity_hash", hash)))

RECURSIVE WriteFrom(_, _, _)
WriteFrom(key, chain, items) ==
    IF items = <<>> THEN <<>>
    ELSE LET it == Head(items) IN
         IF it.sign
         THEN LET digest == HmacDigest(key, chain \o Dumps(it.line.fields)) IN
              <<Signed(it.line.fields, Str(Hex(digest)))>>
                  \o WriteFrom(key, digest, Tail(items))
         ELSE <<it.line>> \o WriteFrom(key, chain, Tail(items))

WriteLog(key, items) == WriteFrom(key, ZeroChain, items)

BaseItems == UNION {[1..n -> Items] : n \in 0..MaxLen}

\* one edit of a written log
NoTamper == [op |-> "none", pos |-> 0, n |-> 0]

HashAlts == <<Null, Num("7"), Str("hex:forged")>>

InsertLines ==
    << TextLine(""), TextLine(" \t"), TextLine("{oops"), TextLine("[1]"),
       ObjectLine(Body1), Signed(Body1, Str("hex:forged")),
       ObjectLine(<<Field("integrity_hash", Str("hex:forged")),
                    Field("action", Str("a")), Field("sequence", Num("1"))>>) >>

IsRecord(line) == line.kind = "object"
HasHash(line) == IsRecord(line) /\ HasKey(line.fields, "integrity_hash")

Tampers(log) ==
    {NoTamper}
    \cup {[op |-> "delete", pos |-> p, n |-> 0] : p \in 1..Len(log)}
    \cup {[op |-> "swap", pos |-> p, n |-> 0] : p \in 1..(Len(log) - 1)}
    \cup {[op |-> "dup", pos |-> p, n |-> 0] : p \in 1..Len(log)}
    \cup {[op |-> "insert", pos |-> p, n |-> i] :
              p \in 1..(Len(log) + 1), i \in 1..Len(InsertLines)}
    \cup {t \in [op : {"mutate", "rename"}, pos : 1..Len(log), n : 1..2] :
              /\ IsRecord(log[t.pos])
              /\ t.n <= Len(log[t.pos].fields)
              /\ log[t.pos].fields[t.n].k # "integrity_hash"}
    \cup {t \in [op : {"sethash"}, pos : 1..Len(log), n : 1..Len(HashAlts)] :
              HasHash(log[t.pos])}
    \cup {t \in [op : {"unsign"}, pos : 1..Len(log), n : {0}] :
              HasHash(log[t.pos])}

MutValue(v) == [t |-> v.t, s |-> v.s \o "0"]

MutateField(line, n) ==
    ObjectLine([i \in 1..Len(line.fields) |->
                   IF i = n THEN Field(line.fields[i].k, MutValue(line.fields[i].v))
                   ELSE line.fields[i]])

\* the n-th member is renamed to integrity_hash
RenameField(line, n) ==
    ObjectLine([i \in 1..Len(line.fields) |->
                   IF i = n THEN Field("integrity_hash", line.fields[i].v)
                   ELSE line.fields[i]])

SetHash(line, hash) ==
    ObjectLine([i \in 1..Len(line.fields) |->
                   IF line.fields[i].k = "integrity_hash"
                   THEN Field("integrity_hash", hash)
                   ELSE line.fields[i]])

RemoveAt(log, p) == SubSeq(log, 1, p - 1) \o SubSeq(log, p + 1, Len(log))
InsertAt(log, p, line) == SubSeq(log, 1, p - 1) \o <<line>> \o SubSeq(log, p, Len(log))
ReplaceAt(log, p, line) == [i \in 1..Len(log) |-> IF i = p THEN line ELSE log[i]]

ApplyTamper(log, t) ==
    CASE t.op = "none" -> log
      [] t.op = "delete" -> RemoveAt(log, t.pos)
      [] t.op = "swap" ->
            [i \in 1..Len(log) |->
                IF i = t.pos THEN log[t.pos + 1]
                ELSE IF i = t.pos + 1 THEN log[t.pos] ELSE log[i]]
      [] t.op = "dup" -> InsertAt(log, t.pos + 1, log[t.pos])
      [] t.op = "insert" -> InsertAt(log, t.pos, InsertLines[t.n])
      [] t.op = "mutate" -> ReplaceAt(log, t.pos, MutateField(log[t.pos], t.n))
      [] t.op = "rename" -> ReplaceAt(log, t.pos, RenameField(log[t.pos], t.n))
      [] t.op = "sethash" -> ReplaceAt(log, t.pos, SetHash(log[t.pos], HashAlts[t.n]))
      [] t.op = "unsign" -> ReplaceAt(log, t.pos, ObjectLine(PopRest(log[t.pos].fields)))

\* the process environment of one run: argv, ORBIT_AUDIT_SECRET, the file
\* system (does the path exist, does reading it fail part-way)
Env(argc, sec, exists, fault) ==
    [argc |-> argc, secret |-> sec, exists |-> exists, fault |-> fault]

Envs(key) ==
    {Env(2, k, TRUE, FALSE) : k \in Keys \cup {""}}
    \cup {Env(1, key, TRUE, FALSE), Env(2, key, FALSE, FALSE), Env(2, key, TRUE, TRUE)}

\* an edited log is verified under the writer's key on a healthy system
Healthy(key) == Env(2, key, TRUE, FALSE)

(***************************************************************************)
(* State.                                                                  *)
(***************************************************************************)
VARIABLES
    wkey,                \* the key the log was written under
    base,                \* the log as written
    tamper,              \* the edit made to it
    env,                 \* argv, environment and file system of the run
    file,                \* the lines of the file at sys.argv[1]
    pc,                  \* position of the process
    secret,              \* main: secret
    current_chain_hash,  \* verify_audit_log: current_chain_hash
    line_number,         \* verify_audit_log: line_number
    errors,              \* verify_audit_log: errors
    compared,            \* lines whose hash was compared (line 84)
    canonical,           \* canonical_bytes of each of those lines (line 76)
    result,              \* main: is_valid, total_records, errors
    stdout,              \* what was printed on sys.stdout
    stderr,              \* what was written on sys.stderr
    exit_code            \* exit status of the process

inputs == <<wkey, base, tamper, env, file>>
scan == <<current_chain_hash, line_number, errors, compared, canonical>>
vars == <<wkey, base, tamper, env, file, pc, secret, current_chain_hash,
          line_number, errors, compared, canonical, result, stdout, stderr,
          exit_code>>

Running == 2
NoResult == [is_valid |-> FALSE, total_records |-> 0, errors |-> <<>>]

\* errors.append(f"Line {line_number}: Invalid JSON - {e}") (line 63)
ParseError(n) ==
    [kind |-> "ParseError", line |-> n, expected |-> "", got |-> "", sequence |-> ""]

\* variant: the diagnostic carries the line number before its increment
IntegrityFailure_ZeroBased(n, calculated, reported, rec) ==
    [kind |-> "IntegrityFailure", line |-> n - 1, expected |-> calculated,
     got |-> reported.s, sequence |-> Get(rec, "sequence", Str("N/A")).s]

\* errors.append(f"Line {line_number}: CRITICAL - Integrity failure ...")
\* (lines 85-90)
IntegrityFailure(n, calculated, reported, rec) ==
    [kind |-> "IntegrityFailure", line |-> n, expected |-> calculated,
     got |-> reported.s, sequence |-> Get(rec, "sequence", Str("N/A")).s]

Init ==
    \E key \in Keys, items \in BaseItems :
        LET log == WriteLog(key, items) IN
        \E t \in Tampers(log) :
            \E e \in (IF t = NoTamper THEN Envs(key) ELSE {Healthy(key)}) :
                /\ wkey = key
                /\ base = log
                /\ tamper = t
                /\ env = e
                /\ file = ApplyTamper(log, t)
                /\ pc = "main"
                /\ secret = ""
                /\ current_chain_hash = ZeroChain
                /\ line_number = 0
                /\ errors = <<>>
                /\ compared = {}
                /\ canonical = <<>>
                /\ result = NoResult
                /\ stdout = <<>>
                /\ stderr = <<>>
                /\ exit_code = Running

(***************************************************************************)
(* main and load_secret.                                                   *)
(***************************************************************************)
\* sys.exit(status)
SysExit(status) ==
    /\ pc' = "exited"
    /\ exit_code' = status

\* main, lines 144-150: no path on the command line
MainUsage ==
    /\ pc = "main"
    /\ env.argc < 2
    /\ stdout' = Append(stdout, "usage")
    /\ SysExit(1)
    /\ UNCHANGED <<inputs, secret, scan, result, stderr>>

\* variant: the file is opened before the secret is loaded
MainArgs_OpenFirst ==
    /\ pc = "main"
    /\ ~(env.argc < 2)
    /\ pc' = "open"
    /\ UNCHANGED <<inputs, secret, scan, result, stdout, stderr, exit_code>>

\* main, lines 144-153: enter load_secret
MainArgs ==
    /\ pc = "main"
    /\ ~(env.argc < 2)
    /\ pc' = "load_secret"
    /\ UNCHANGED <<inputs, secret, scan, result, stdout, stderr, exit_code>>

\* load_secret, lines 28-32: the variable is unset or empty
LoadSecretMissing ==
    /\ pc = "load_secret"
    /\ env.secret = ""
    /\ stdout' = Append(stdout, "ERROR: ORBIT_AUDIT_SECRET environment variable not set")
    /\ SysExit(1)
    /\ UNCHANGED <<inputs, secret, scan, result, stderr>>

\* load_secret, line 33, and main, lines 155-158: enter verify_audit_log
LoadSecret ==
    /\ pc = "load_secret"
    /\ env.secret # ""
    /\ secret' = env.secret
    /\ stdout' = Append(stdout, "Validating audit log")
    /\ pc' = "open"
    /\ UNCHANGED <<inputs, scan, result, stderr, exit_code>>

(***************************************************************************)
(* verify_audit_log.                                                       *)
(***************************************************************************)
\* lines 52, 97-99: open() raises FileNotFoundError
OpenMissing ==
    /\ pc = "open"
    /\ ~env.exists
    /\ stdout' = Append(stdout, "ERROR: File not found")
    /\ SysExit(1)
    /\ UNCHANGED <<inputs, secret, scan, result, stderr>>

\* lines 47-52: the file is open
OpenFile ==
    /\ pc = "open"
    /\ env.exists
    /\ current_chain_hash' = ZeroChain
    /\ line_number' = 0
    /\ errors' = <<>>
    /\ pc' = "scan"
    /\ UNCHANGED <<inputs, secret, compared, canonical, result, stdout, stderr, exit_code>>

\* variant: a read failure ends the loop and the partial result is returned
ReadFails_Returns ==
    /\ pc = "scan"
    /\ env.fault
    /\ result' = [is_valid |-> Len(errors) = 0, total_records |-> line_number,
                  errors |-> errors]
    /\ pc' = "print_report"
    /\ UNCHANGED <<inputs, secret, scan, stdout, stderr, exit_code>>

\* lines 53, 100-102: reading the next line raises IOError
ReadFails ==
    /\ pc = "scan"
    /\ env.fault
    /\ stdout' = Append(stdout, "ERROR: Failed to read file")
    /\ SysExit(1)
    /\ UNCHANGED <<inputs, secret, scan, result, stderr>>

\* the line the loop reads next, stripped (lines 53-55)
HasNext == pc = "scan" /\ line_number < Len(file)
NextLine == StripLine(file[line_number + 1])
NextRecord == Loads(NextLine)
NextCalculated == CalculatedHash(secret, current_chain_hash, PopRest(NextRecord))

\* variant: a blank line is handed to the parser
SkipBlank_AsParseError ==
    /\ HasNext
    /\ IsBlank(file[line_number + 1])
    /\ line_number' = line_number + 1
    /\ errors' = Append(errors, ParseError(line_number + 1))
    /\ UNCHANGED <<inputs, pc, secret, current_chain_hash, compared, canonical,
                   result, stdout, stderr, exit_code>>

\* lines 54-58: a blank line
SkipBlank ==
    /\ HasNext
    /\ IsBlank(file[line_number + 1])
    /\ line_number' = line_number + 1
    /\ UNCHANGED <<inputs, pc, secret, current_chain_hash, errors, compared, canonical,
                   result, stdout, stderr, exit_code>>

\* variant: a parse error restarts the chain
ParseFailure_ResetsChain ==
    /\ HasNext
    /\ ~IsBlank(file[line_number + 1])
    /\ JsonKind(NextLine) = "JSONDecodeError"
    /\ line_number' = line_number + 1
    /\ errors' = Append(errors, ParseError(line_number + 1))
    /\ current_chain_hash' = ZeroChain
    /\ UNCHANGED <<inputs, pc, secret, compared, canonical, result, stdout, stderr, exit_code>>

\* lines 60-64: json.loads raises JSONDecodeError
ParseFailure ==
    /\ HasNext
    /\ ~IsBlank(file[line_number + 1])
    /\ JsonKind(NextLine) = "JSONDecodeError"
    /\ line_number' = line_number + 1
    /\ errors' = Append(errors, ParseError(line_number + 1))
    /\ UNCHANGED <<inputs, pc, secret, current_chain_hash, compared, canonical,
                   result, stdout, stderr, exit_code>>

\* line 67: the parsed value is not a dict; record.pop raises AttributeError
\* (TypeError for a list), which nothing catches: traceback, exit status 1
NotADict ==
    /\ HasNext
    /\ ~IsBlank(file[line_number + 1])
    /\ JsonKind(NextLine) = "nondict"
    /\ line_number' = line_number + 1
    /\ stderr' = Append(stderr, "Traceback")
    /\ SysExit(1)
    /\ UNCHANGED <<inputs, secret, current_chain_hash, errors, compared, canonical,
                   result, stdout>>

\* variant: a record without a hash is reported as a mismatch
SkipLegacy_AsFailure ==
    /\ HasNext
    /\ JsonKind(NextLine) = "dict"
    /\ PopHash(NextRecord) = Null
    /\ line_number' = line_number + 1
    /\ errors' = Append(errors, IntegrityFailure(line_number + 1, NextCalculated,
                                                 Null, PopRest(NextRecord)))
    /\ UNCHANGED <<inputs, pc, secret, current_chain_hash, compared, canonical,
                   result, stdout, stderr, exit_code>>

\* lines 66-71: no reported hash
SkipLegacy ==
    /\ HasNext
    /\ JsonKind(NextLine) = "dict"
    /\ PopHash(NextRecord) = Null
    /\ line_number' = line_number + 1
    /\ UNCHANGED <<inputs, pc, secret, current_chain_hash, errors, compared, canonical,
                   result, stdout, stderr, exit_code>>

\* variant: the chain catches up with the calculated digest after a mismatch
HashMismatch_CatchUp ==
    /\ HasNext
    /\ JsonKind(NextLine) = "dict"
    /\ PopHash(NextRecord) # Null
    /\ ~HashMatches(PopHash(NextRecord), NextCalculated)
    /\ line_number' = line_number + 1
    /\ errors' = Append(errors, IntegrityFailure(line_number + 1, NextCalculated,
                                                 PopHash(NextRecord), PopRest(NextRecord)))
    /\ compared' = compared \cup {line_number + 1}
    /\ canonical' = (line_number + 1 :> Dumps(PopRest(NextRecord))) @@ canonical
    /\ current_chain_hash' = HmacDigest(secret, current_chain_hash \o Dumps(PopRest(NextRecord)))
    /\ UNCHANGED <<inputs, pc, secret, result, stdout, stderr, exit_code>>

\* lines 73-92: the reported hash differs from the calculated one
HashMismatch ==
    /\ HasNext
    /\ JsonKind(NextLine) = "dict"
    /\ PopHash(NextRecord) # Null
    /\ ~HashMatches(PopHash(NextRecord), NextCalculated)
    /\ line_number' = line_number + 1
    /\ errors' = Append(errors, IntegrityFailure(line_number + 1, NextCalculated,
                                                 PopHash(NextRecord), PopRest(NextRecord)))
    /\ compared' = compared \cup {line_number + 1}
    /\ canonical' = (line_number + 1 :> Dumps(PopRest(NextRecord))) @@ canonical
    /\ UNCHANGED <<inputs, pc, secret, current_chain_hash,
                   result, stdout, stderr, exit_code>>

\* variant: the chain advances to the hex form of the digest
HashMatch_Hex ==
    /\ HasNext
    /\ JsonKind(NextLine) = "dict"
    /\ PopHash(NextRecord) # Null
    /\ HashMatches(PopHash(NextRecord), NextCalculated)
    /\ line_number' = line_number + 1
    /\ current_chain_hash' = NextCalculated
    /\ compared' = compared \cup {line_number + 1}
    /\ canonical' = (line_number + 1 :> Dumps(PopRest(NextRecord))) @@ canonical
    /\ UNCHANGED <<inputs, pc, secret, errors, result, stdout, stderr, exit_code>>

\* lines 73-84, 94-95: the hashes match, the chain advances
HashMatch ==
    /\ HasNext
    /\ JsonKind(NextLine) = "dict"
    /\ PopHash(NextRecord) # Null
    /\ HashMatches(PopHash(NextRecord), NextCalculated)
    /\ line_number' = line_number + 1
    /\ current_chain_hash' = HmacDigest(secret, current_chain_hash \o Dumps(PopRest(NextRecord)))
    /\ compared' = compared \cup {line_number + 1}
    /\ canonical' = (line_number + 1 :> Dumps(PopRest(NextRecord))) @@ canonical
    /\ UNCHANGED <<inputs, pc, secret, errors, result, stdout, stderr, exit_code>>

\* line 104 and main, line 158: end of file
Return ==
    /\ pc = "scan"
    /\ ~env.fault
    /\ line_number = Len(file)
    /\ result' = [is_valid |-> Len(errors) = 0, total_records |-> line_number,
                  errors |-> errors]
    /\ pc' = "print_report"
    /\ UNCHANGED <<inputs, secret, scan, stdout, stderr, exit_code>>

(***************************************************************************)
(* print_report and the end of main.                                       *)
(***************************************************************************)
\* lines 107-140
PrintReport ==
    /\ pc = "print_report"
    /\ stdout' = Append(stdout, IF result.is_valid THEN "[PASS] STATUS: VALID"
                                ELSE "[FAIL] STATUS: INVALID")
    /\ pc' = "exit"
    /\ UNCHANGED <<inputs, secret, scan, result, stderr, exit_code>>

\* variant: the exit status ignores the verdict
MainExit_AlwaysZero ==
    /\ pc = "exit"
    /\ SysExit(0)
    /\ UNCHANGED <<inputs, secret, scan, result, stdout, stderr>>

\* main, lines 162-165
MainExit ==
    /\ pc = "exit"
    /\ SysExit(IF ~result.is_valid THEN 1 ELSE 0)
    /\ UNCHANGED <<inputs, secret, scan, result, stdout, stderr>>

Next ==
    \/ MainUsage
    \/ MainArgs
    \/ LoadSecretMissing
    \/ LoadSecret
    \/ OpenMissing
    \/ OpenFile
    \/ ReadFails
    \/ SkipBlank
    \/ ParseFailure
    \/ NotADict
    \/ SkipLegacy
    \/ HashMismatch
    \/ HashMatch
    \/ Return
    \/ PrintReport
    \/ MainExit

Spec == Init /\ [][Next]_vars

TypeOK ==
    /\ pc \in {"main", "load_secret", "open", "scan", "print_report", "exit", "exited"}
    /\ exit_code \in {0, 1, Running}
    /\ line_number \in 0..Len(file)

(***************************************************************************)
(* The loop of verify_audit_log (lines 53-95) as a function: the state of  *)
(* the scan after reading `lines` from state st.  It serves to compare the *)
(* scan of one file with the scan of another.                              *)
(***************************************************************************)
ScanStart ==
    [chain |-> ZeroChain, line_number |-> 0, errors |-> <<>>, compared |-> {},
     raised |-> FALSE]

ScanLine(key, st, raw) ==
    LET line == StripLine(raw)
        n == st.line_number + 1
        counted == [st EXCEPT !.line_number = n]
        record == Loads(line)
        reported_hash == PopHash(record)
        rest == PopRest(record)
        calculated_hash == CalculatedHash(key, st.chain, rest)
    IN  IF IsBlank(raw) THEN counted
        ELSE IF JsonKind(line) = "JSONDecodeError"
        THEN [counted EXCEPT !.errors = Append(@, ParseError(n))]
        ELSE IF JsonKind(line) = "nondict"
        THEN [counted EXCEPT !.raised = TRUE]
        ELSE IF reported_hash = Null THEN counted
        ELSE IF ~HashMatches(reported_hash, calculated_hash)
        THEN [counted EXCEPT
                 !.errors = Append(@, IntegrityFailure(n, calculated_hash,
                                                       reported_hash, rest)),
                 !.compared = @ \cup {n}]
        ELSE [counted EXCEPT
                 !.chain = HmacDigest(key, st.chain \o Dumps(rest)),
                 !.compared = @ \cup {n}]

RECURSIVE ScanFrom(_, _, _)
ScanFrom(key, st, lines) ==
    IF lines = <<>> \/ st.raised THEN st
    ELSE ScanFrom(key, ScanLine(key, st, Head(lines)), Tail(lines))

(***************************************************************************)
(* Vocabulary of the properties.                                           *)
(***************************************************************************)
\* verify_audit_log has returned to main
Returned == pc \in {"print_report", "exit"}

IsLegacy(line) == IsRecord(line) /\ ~HasKey(line.fields, "integrity_hash")

\* a log as the writer leaves it: signed records chained from ZeroChain,
\* possibly with legacy records and blank lines between them
ValidLog(log) == \A i \in 1..Len(log) : IsRecord(log[i]) \/ IsBlank(log[i])
RecordsAllSigned(log) == \A i \in 1..Len(log) : HasHash(log[i]) \/ IsBlank(log[i])
SignedOnly(log) == \A i \in 1..Len(log) : HasHash(log[i])

\* the run verifies the file with the key it was written under
SameKey == secret = wkey

FailureAt(i) == \E j \in 1..Len(errors) : errors[j].kind = "IntegrityFailure" /\ errors[j].line = i
DiagnosticAt(i) == \E j \in 1..Len(errors) : errors[j].line = i

(***************************************************************************)
(* C1  No-tamper round trip: a log whose records are all signed, chained   *)
(* from the zero chain state under key K and left unedited, verifies under *)
(* K as valid with an empty error list.                                    *)
(***************************************************************************)
C1_RoundTrip ==
    (Returned /\ SameKey /\ tamper = NoTamper /\ RecordsAllSigned(base))
        => (result.is_valid /\ result.errors = <<>>)

C1_Witness ==
    /\ Returned /\ SameKey /\ tamper = NoTamper
    /\ SignedOnly(base) /\ Len(base) >= 3
    /\ result.is_valid

(***************************************************************************)
(* C2  Tamper evidence: after any single insertion of a record, deletion   *)
(* of a record (the last one included), swap of adjacent records or        *)
(* mutation of a field of a record of a validly chained log, verification  *)
(* returns is_valid = FALSE.                                               *)
(***************************************************************************)
InsertsRecord(t) == t.op = "dup" \/ (t.op = "insert" /\ IsRecord(InsertLines[t.n]))

C2_TamperDetected ==
    (/\ Returned /\ SameKey /\ SignedOnly(base)
     /\ \/ InsertsRecord(tamper)
        \/ tamper.op \in {"delete", "swap", "mutate", "rename", "sethash"})
        => ~result.is_valid

(***************************************************************************)
(* C3  Single-field mutation: mutating a non-hash field (its value or its  *)
(* name) of the signed record at line i of a valid log gives an            *)
(* IntegrityFailure at line i                                              *)
(* whose expected digest differs from the recorded one, an                 *)
(* IntegrityFailure at every signed record after line i, and no            *)
(* diagnostic before line i.                                               *)
(***************************************************************************)
C3_Mutation ==
    (/\ Returned /\ SameKey /\ ValidLog(base)
     /\ tamper.op \in {"mutate", "rename"} /\ HasHash(base[tamper.pos]))
        => /\ \E j \in 1..Len(errors) :
                 /\ errors[j].kind = "IntegrityFailure"
                 /\ errors[j].line = tamper.pos
                 /\ errors[j].expected # errors[j].got
           /\ \A i \in (tamper.pos + 1)..Len(file) : HasHash(file[i]) => FailureAt(i)
           /\ \A j \in 1..Len(errors) : errors[j].line >= tamper.pos

C3_Witness ==
    /\ Returned /\ SameKey /\ ValidLog(base)
    /\ tamper.op \in {"mutate", "rename"} /\ HasHash(base[tamper.pos])
    /\ \E i \in (tamper.pos + 1)..Len(file) : HasHash(file[i]) /\ FailureAt(i)
    /\ \E i \in 1..(tamper.pos - 1) : HasHash(file[i])

(***************************************************************************)
(* C4  Reordering, as claimed: swapping the adjacent signed records at     *)
(* lines i and i+1 of a valid log gives an IntegrityFailure at line i and  *)
(* at every signed record from line i to the end, line i+1 included.       *)
(***************************************************************************)
SwapOfSigned ==
    /\ Returned /\ SameKey /\ ValidLog(base)
    /\ tamper.op = "swap" /\ HasHash(base[tamper.pos]) /\ HasHash(base[tamper.pos + 1])

C4_SwapCascadeAll ==
    SwapOfSigned => \A i \in tamper.pos..Len(file) : HasHash(file[i]) => FailureAt(i)

(***************************************************************************)
(* C4  Reordering, amended: the swap gives an IntegrityFailure at line i;  *)
(* the record now at line i+1 was chained to the state the verifier still  *)
(* holds, so it passes without a diagnostic; every signed record after     *)
(* line i+1 gets an IntegrityFailure; no diagnostic precedes line i.       *)
(***************************************************************************)
C4_SwapCascade ==
    SwapOfSigned
        => /\ FailureAt(tamper.pos)
           /\ ~DiagnosticAt(tamper.pos + 1)
           /\ \A i \in (tamper.pos + 2)..Len(file) : HasHash(file[i]) => FailureAt(i)
           /\ \A j \in 1..Len(errors) : errors[j].line >= tamper.pos

C4_Witness ==
    /\ SwapOfSigned
    /\ ~DiagnosticAt(tamper.pos + 1)
    /\ \E i \in (tamper.pos + 2)..Len(file) : HasHash(file[i]) /\ FailureAt(i)

(***************************************************************************)
(* C5  Deletion: removing the record at line i, not the last, of a valid   *)
(* all-signed log makes the first diagnostic an IntegrityFailure at        *)
(* physical line i, the record that followed the deleted one.              *)
(***************************************************************************)
MiddleDeletion ==
    /\ Returned /\ SameKey /\ SignedOnly(base)
    /\ tamper.op = "delete" /\ tamper.pos < Len(base)

C5_Deletion ==
    MiddleDeletion
        => /\ errors # <<>>
           /\ errors[1].kind = "IntegrityFailure"
           /\ errors[1].line = tamper.pos
           /\ \A j \in 1..Len(errors) : errors[j].line >= tamper.pos

C5_Witness == MiddleDeletion /\ tamper.pos > 1 /\ FailureAt(tamper.pos)

(***************************************************************************)
(* C6  Wrong secret: verifying an unedited valid log under a key other     *)
(* than the writer's gives an IntegrityFailure at every signed record, and *)
(* the chain state stays at the 32 zero bytes throughout the scan.         *)
(***************************************************************************)
WrongKey == secret # "" /\ secret # wkey /\ tamper = NoTamper /\ ValidLog(base)

C6_WrongSecret ==
    WrongKey
        => /\ current_chain_hash = ZeroChain
           /\ \A i \in 1..line_number : HasHash(file[i]) => FailureAt(i)

C6_Witness ==
    /\ WrongKey /\ Returned
    /\ Cardinality({i \in 1..Len(file) : HasHash(file[i]) /\ FailureAt(i)}) >= 2

(***************************************************************************)
(* C7  Overall validity and exit code: the returned is_valid is TRUE       *)
(* exactly when the error list is empty at end of file; the process exits  *)
(* with 0 exactly when the scan completed with is_valid = TRUE, and with 1 *)
(* when a diagnostic was recorded or a precondition or I/O error occurred. *)
(***************************************************************************)
PreconditionError == env.argc < 2 \/ env.secret = "" \/ ~env.exists \/ env.fault

C7_ValidityAndExit ==
    /\ Returned => /\ result.is_valid <=> (errors = <<>>)
                   /\ result.errors = errors
                   /\ line_number = Len(file)
    /\ result.is_valid => (pc \in {"print_report", "exit", "exited"} /\ errors = <<>>)
    /\ pc = "exited" => /\ exit_code \in {0, 1}
                        /\ exit_code = 0 <=> result.is_valid
                        /\ (errors # <<>> \/ PreconditionError) => exit_code = 1
    /\ pc # "exited" => exit_code = Running

C7_WitnessExits ==
    /\ pc = "exited" /\ exit_code = 1
    /\ ~PreconditionError /\ errors # <<>> /\ line_number = Len(file)
    /\ stderr = <<>>

(***************************************************************************)
(* Comparing the scan with the scan of the file without some lines.        *)
(***************************************************************************)
\* the lines read so far
ReadSoFar == SubSeq(file, 1, line_number)

\* the indices of the lines read so far that are not in drop, ascending
RECURSIVE KeptFrom(_, _)
KeptFrom(drop, i) ==
    IF i > line_number THEN <<>>
    ELSE (IF i \in drop THEN <<>> ELSE <<i>>) \o KeptFrom(drop, i + 1)

Kept(drop) == KeptFrom(drop, 1)

\* the scan, under the same key, of the lines read so far without those in drop
ScanWithout(drop) ==
    ScanFrom(secret, ScanStart, [j \in 1..Len(Kept(drop)) |-> file[Kept(drop)[j]]])

\* the diagnostics of that scan, carried to the line numbers of the file
Renumbered(errs, idx) ==
    [j \in 1..Len(errs) |-> [errs[j] EXCEPT !.line = idx[errs[j].line]]]

IsParseError(e) == e.kind = "ParseError"
NotParseError(e) == e.kind # "ParseError"

Scanning == pc \in {"scan", "print_report"}

(***************************************************************************)
(* C8  Malformed line isolation: each line of invalid JSON yields exactly  *)
(* one diagnostic, a ParseError with that line's number; the chain state,  *)
(* the hashes compared and the other diagnostics are, at every point of    *)
(* the scan, those of the scan of the same lines without the malformed     *)
(* ones.                                                                   *)
(***************************************************************************)
Malformed(line) == ~IsBlank(line) /\ JsonKind(StripLine(line)) = "JSONDecodeError"
MalformedRead == {i \in 1..line_number : Malformed(file[i])}

C8_MalformedIsolation ==
    Scanning =>
        LET ref == ScanWithout(MalformedRead) IN
        /\ \A i \in MalformedRead :
              /\ Cardinality({j \in 1..Len(errors) : errors[j].line = i}) = 1
              /\ \A j \in 1..Len(errors) : errors[j].line = i => IsParseError(errors[j])
        /\ \A j \in 1..Len(errors) : IsParseError(errors[j]) => errors[j].line \in MalformedRead
        /\ SelectSeq(errors, NotParseError) = Renumbered(ref.errors, Kept(MalformedRead))
        /\ current_chain_hash = ref.chain
        /\ compared = {Kept(MalformedRead)[j] : j \in ref.compared}

C8_Witness ==
    /\ Returned
    /\ \E i \in MalformedRead :
          /\ \E j \in 1..(i - 1) : HasHash(file[j]) /\ ~FailureAt(j)
          /\ \E j \in (i + 1)..Len(file) : HasHash(file[j]) /\ ~FailureAt(j)
          /\ DiagnosticAt(i)

(***************************************************************************)
(* C9  Blank-line tolerance: blank (empty or whitespace-only) lines yield  *)
(* no diagnostic; the verdict, the chain state and the diagnostics are     *)
(* those of the scan of the same lines without the blank ones, each        *)
(* diagnostic carrying the physical line number of its line in the file.   *)
(***************************************************************************)
BlankRead == {i \in 1..line_number : IsBlank(file[i])}

C9_BlankTolerance ==
    Scanning =>
        LET ref == ScanWithout(BlankRead) IN
        /\ \A i \in BlankRead : ~DiagnosticAt(i)
        /\ errors = Renumbered(ref.errors, Kept(BlankRead))
        /\ current_chain_hash = ref.chain
        /\ compared = {Kept(BlankRead)[j] : j \in ref.compared}
        /\ Returned => (result.is_valid <=> ref.errors = <<>>)

C9_Witness ==
    /\ Returned
    /\ \E i \in BlankRead :
          /\ file[i].raw # ""
          /\ \E j \in (i + 1)..Len(file) : DiagnosticAt(j)
          /\ \E j \in 1..(i - 1) : HasHash(file[j]) /\ ~FailureAt(j)

(***************************************************************************)
(* C10  Legacy tolerance: while the file holds only records without an     *)
(* integrity_hash field, no hash is compared, no diagnostic is recorded,   *)
(* the chain state stays at the 32 zero bytes, and the returned verdict is *)
(* valid.                                                                  *)
(***************************************************************************)
LegacyOnly == file # <<>> /\ \A i \in 1..Len(file) : IsLegacy(file[i])

C10_LegacyTolerance ==
    LegacyOnly
        => /\ current_chain_hash = ZeroChain
           /\ errors = <<>>
           /\ compared = {}
           /\ Returned => (result.is_valid /\ result.errors = <<>>)
           /\ pc = "exited" /\ ~PreconditionError => exit_code = 0

C10_Witness == LegacyOnly /\ Returned /\ Len(file) >= 2 /\ SameKey /\ result.is_valid

(***************************************************************************)
(* Vocabulary of the process-level properties.                             *)
(***************************************************************************)
\* a path was given, and the secret is missing, the file is missing or
\* reading it fails
FatalPrecondition == env.argc >= 2 /\ (env.secret = "" \/ ~env.exists \/ env.fault)

ErrorMessages ==
    { "ERROR: ORBIT_AUDIT_SECRET environment variable not set",
      "ERROR: File not found", "ERROR: Failed to read file" }

ReportLines == {"[PASS] STATUS: VALID", "[FAIL] STATUS: INVALID"}

Printed(stream, texts) == \E i \in 1..Len(stream) : stream[i] \in texts

(***************************************************************************)
(* C11  Precondition errors are fatal: with a missing or empty secret, a   *)
(* missing file or a read failure the process ends at once with a non-zero *)
(* exit status; no result is returned, the report is not printed, and the  *)
(* step that ends the process adds nothing to the diagnostic list (the     *)
(* diagnostics gathered before a read failure are not reported).           *)
(***************************************************************************)
C11_FatalPreconditions ==
    [][ /\ (FatalPrecondition /\ pc' = "exited")
           => /\ exit_code' = 1
              /\ result' = NoResult
              /\ ~Printed(stdout', ReportLines)
              /\ errors' = errors
              /\ (env.secret = "" => pc = "load_secret")
              /\ (env.secret # "" /\ ~env.exists => pc = "open")
        /\ FatalPrecondition => pc' \notin {"print_report", "exit"}
      ]_vars

C11_Witness ==
    /\ pc = "exited" /\ env.fault /\ exit_code = 1
    /\ errors # <<>> /\ line_number >= 2
    /\ result = NoResult /\ ~Printed(stdout, ReportLines)

(***************************************************************************)
(* C12  Precondition error messages go to the error stream; nothing about  *)
(* them is written on the standard output.                                 *)
(***************************************************************************)
C12_ErrorsOnStderr ==
    (pc = "exited" /\ FatalPrecondition)
        => /\ Printed(stderr, ErrorMessages)
           /\ ~Printed(stdout, ErrorMessages)

(***************************************************************************)
(* C13  Ordering of preconditions: the secret is checked before the file   *)
(* is opened; with the secret unset or empty the process ends without any  *)
(* access to the file.                                                     *)
(***************************************************************************)
\* the run is about to open the file, or has opened or tried to open it
FileAccess ==
    \/ pc \in {"open", "scan", "print_report", "exit"}
    \/ line_number > 0
    \/ Printed(stdout, {"ERROR: File not found", "ERROR: Failed to read file"})
    \/ Printed(stdout, ReportLines)
    \/ stderr # <<>>

C13_SecretBeforeFile ==
    /\ FileAccess => (env.secret # "" /\ secret = env.secret)
    /\ (pc = "exited" /\ env.argc >= 2 /\ env.secret = "")
           => /\ ~FileAccess
              /\ Printed(stdout, {"ERROR: ORBIT_AUDIT_SECRET environment variable not set"})

C13_Witness ==
    /\ pc = "exited" /\ env.argc >= 2 /\ env.secret = ""
    /\ env.exists /\ Len(file) >= 2 /\ ~FileAccess

(***************************************************************************)
(* C14  Chain-state transition: the chain state is 32 zero bytes when the  *)
(* scan starts; processing a line sets it to the raw HMAC digest of the    *)
(* line's record when the record is signed and its reported hash equals    *)
(* the expected one, and leaves it unchanged for every other line (blank,  *)
(* parse error, legacy record, integrity failure).                         *)
(***************************************************************************)
\* the record of a line, without its hash, in canonical text
CanonicalOf(line) == Dumps(PopRest(Loads(StripLine(line))))

\* the digest of a line's record under a key and a chain state
DigestOf(key, chain, line) == HmacDigest(key, chain \o CanonicalOf(line))

\* the line is a signed record whose reported hash is the expected one
SignedAndMatching(key, chain, line) ==
    /\ HasHash(line)
    /\ PopHash(Loads(line)) = Str(Hex(DigestOf(key, chain, line)))

C14_ChainTransition ==
    [][ /\ (pc' = "scan" /\ pc # "scan") => current_chain_hash' = ZeroChain
        /\ (pc = "scan" /\ line_number' = line_number + 1)
              => LET line == file[line_number + 1] IN
                 current_chain_hash' =
                     IF SignedAndMatching(secret, current_chain_hash, line)
                     THEN DigestOf(secret, current_chain_hash, line)
                     ELSE current_chain_hash
        /\ (pc = "scan" /\ line_number' = line_number)
              => current_chain_hash' = current_chain_hash
      ]_vars

\* a signed record has passed after an earlier one failed, and the lines
\* read hold a blank line, a parse error and a legacy record as well
C14_Witness ==
    /\ pc = "scan" /\ current_chain_hash # ZeroChain
    /\ \E i \in 1..line_number : FailureAt(i)
           /\ \E j \in (i + 1)..line_number : HasHash(file[j]) /\ ~DiagnosticAt(j)
    /\ \E i \in 1..line_number : IsBlank(file[i]) \/ IsLegacy(file[i]) \/ Malformed(file[i])

(***************************************************************************)
(* C15  No abort on content: whatever the lines of a readable file hold,   *)
(* the scan reads every line, reaches the end of the file and returns a    *)
(* result; a line that is not a single JSON object yields a ParseError and *)
(* never ends the scan early.                                              *)
(***************************************************************************)
NotAnObject(line) == ~IsBlank(line) /\ ~IsRecord(line)

C15_NoAbortOnContent ==
    (pc = "exited" /\ ~PreconditionError)
        => /\ line_number = Len(file)
           /\ result.total_records = Len(file)
           /\ Printed(stdout, ReportLines)
           /\ stderr = <<>>
           /\ \A i \in 1..Len(file) :
                 NotAnObject(file[i])
                     => \E j \in 1..Len(errors) : errors[j] = ParseError(i)

(***************************************************************************)
(* C16  Legacy classification: a parsed record is skipped as legacy        *)
(* exactly when it has no integrity_hash field; every record that carries  *)
(* the field, whatever its value (null or a non-string included), has its  *)
(* hash compared and either advances the chain state or yields an          *)
(* IntegrityFailure.                                                       *)
(***************************************************************************)
C16_LegacyIffNoField ==
    [][ (pc = "scan" /\ line_number' = line_number + 1 /\ IsRecord(file[line_number + 1]))
           => LET line == file[line_number + 1] IN
              /\ IsLegacy(line) <=> UNCHANGED <<current_chain_hash, errors, compared>>
              /\ HasHash(line)
                    => /\ compared' = compared \cup {line_number + 1}
                       /\ \/ /\ current_chain_hash' # current_chain_hash
                             /\ errors' = errors
                          \/ /\ current_chain_hash' = current_chain_hash
                             /\ Len(errors') = Len(errors) + 1
                             /\ errors'[Len(errors')].kind = "IntegrityFailure"
                             /\ errors'[Len(errors')].line = line_number + 1
      ]_vars

(***************************************************************************)
(* The chain as the content of the lines defines it: the state after a     *)
(* sequence of lines is the digest of the last signed record whose         *)
(* reported hash matched under the state before it, or the zero state.     *)
(***************************************************************************)
RECURSIVE ChainAfter(_, _)
ChainAfter(key, lines) ==
    IF lines = <<>> THEN ZeroChain
    ELSE LET before == ChainAfter(key, SubSeq(lines, 1, Len(lines) - 1))
             line == lines[Len(lines)]
         IN  IF SignedAndMatching(key, before, line)
             THEN DigestOf(key, before, line)
             ELSE before

ChainBefore(i) == ChainAfter(secret, SubSeq(file, 1, i - 1))

\* the lines of the file that fail: not a JSON object, or a record that
\* carries a hash other than the expected one
FailingLines ==
    {i \in 1..Len(file) :
        \/ NotAnObject(file[i])
        \/ HasHash(file[i]) /\ ~SignedAndMatching(secret, ChainBefore(i), file[i])}

\* the process has ended after the file could be opened and read
RunOver == Returned \/ (pc = "exited" /\ ~PreconditionError)

(***************************************************************************)
(* C17  Complete, ordered diagnostics: at the end of the scan the list     *)
(* holds exactly one entry for each line that failed to parse or whose     *)
(* signed record mismatched and none for any other line, in file order     *)
(* with strictly increasing line numbers; no failure suppresses the        *)
(* diagnostic of a later failing line.                                     *)
(***************************************************************************)
C17_CompleteDiagnostics ==
    RunOver
        => /\ \A j \in 1..(Len(errors) - 1) : errors[j].line < errors[j + 1].line
           /\ {errors[j].line : j \in 1..Len(errors)} = FailingLines
           /\ \A j \in 1..Len(errors) :
                 IsParseError(errors[j]) <=> NotAnObject(file[errors[j].line])

(***************************************************************************)
(* C18  Verified-record count: on the valid path the number of records     *)
(* the result and the report present as verified is the number of signed   *)
(* records whose hash was compared and matched; a file of legacy records   *)
(* only is reported valid with zero verified records, and blank lines are  *)
(* not counted.                                                            *)
(***************************************************************************)
\* print(f"[PASS] All {total_records} audit records verified") (line 116)
ReportedVerified == result.total_records

Matched == {i \in compared : ~FailureAt(i)}

C18_VerifiedCount ==
    (Returned /\ result.is_valid) => ReportedVerified = Cardinality(Matched)

(***************************************************************************)
(* C19  Canonicalization: the bytes hashed for a record are the compact    *)
(* encoding ("," and ":" separators, no whitespace) of all the fields of   *)
(* the source line except integrity_hash, in source order; they depend     *)
(* neither on the value of integrity_hash nor on its place among the       *)
(* fields, and records whose other fields differ in content or in order    *)
(* have different canonical bytes.                                         *)
(***************************************************************************)
NotHashField(f) == f.k # "integrity_hash"

\* the fields of line i of the file other than integrity_hash, as written
SourceRest(i) == SelectSeq(file[i].fields, NotHashField)

Member(f) ==
    "\"" \o f.k \o "\":" \o (IF f.v.t = "str" THEN "\"" \o f.v.s \o "\"" ELSE f.v.s)

RECURSIVE Joined(_, _)
Joined(fs, i) ==
    IF i > Len(fs) THEN ""
    ELSE (IF i > 1 THEN "," ELSE "") \o Member(fs[i]) \o Joined(fs, i + 1)

CompactEncoding(fs) == "{" \o Joined(fs, 1) \o "}"

C19_Canonicalization ==
    /\ DOMAIN canonical = compared
    /\ \A i \in DOMAIN canonical : canonical[i] = CompactEncoding(SourceRest(i))
    /\ \A i, j \in DOMAIN canonical :
          (SourceRest(i) = SourceRest(j)) <=> (canonical[i] = canonical[j])

\* two records with the same fields in a different order, the hash first in
\* one and last in the other, have both been hashed
C19_Witness ==
    \E i, j \in DOMAIN canonical :
        /\ file[i].fields[1].k = "integrity_hash"
        /\ file[j].fields[Len(file[j].fields)].k = "integrity_hash"
        /\ {SourceRest(i)[n] : n \in 1..Len(SourceRest(i))}
               = {SourceRest(j)[n] : n \in 1..Len(SourceRest(j))}
        /\ SourceRest(i) # SourceRest(j)
        /\ canonical[i] # canonical[j]

(***************************************************************************)
(* C20  At every point of the scan the signed records that have passed so  *)
(* far, in file order, form by themselves a valid hash chain from the 32   *)
(* zero bytes under the secret, and the chain state is the digest of the   *)
(* last of them (32 zero bytes if there is none); so a compared record     *)
(* passes exactly when its hash was computed over the digest of the last   *)
(* record that passed before it, also after a failure.                     *)
(***************************************************************************)
\* the lines among the first n that were compared and have no diagnostic
RECURSIVE PassedUpTo(_)
PassedUpTo(n) ==
    IF n = 0 THEN <<>>
    ELSE PassedUpTo(n - 1) \o (IF n \in Matched THEN <<file[n]>> ELSE <<>>)

\* every record of lines carries the hash of its canonical bytes under the
\* digest of the one before, the first under chain
RECURSIVE ValidChainFrom(_, _, _)
ValidChainFrom(key, chain, lines) ==
    \/ lines = <<>>
    \/ /\ SignedAndMatching(key, chain, Head(lines))
       /\ ValidChainFrom(key, DigestOf(key, chain, Head(lines)), Tail(lines))

RECURSIVE LastDigest(_, _, _)
LastDigest(key, chain, lines) ==
    IF lines = <<>> THEN chain
    ELSE LastDigest(key, DigestOf(key, chain, Head(lines)), Tail(lines))

C20_PassedFormChain ==
    (pc = "scan" \/ Returned)
        => /\ ValidChainFrom(secret, ZeroChain, PassedUpTo(line_number))
           /\ current_chain_hash = LastDigest(secret, ZeroChain, PassedUpTo(line_number))
           /\ \A i \in compared :
                 (i \in Matched)
                     <=> SignedAndMatching(secret,
                             LastDigest(secret, ZeroChain, PassedUpTo(i - 1)), file[i])

\* a record has passed before a failure and another one after it
C20_Witness ==
    /\ Returned
    /\ \E i \in compared :
          /\ FailureAt(i)
          /\ \E j \in Matched : j < i
          /\ \E j \in Matched : j > i

====
